---- MODULE Spec2Model ----
(***************************************************************************)
(* A model of Pyrseas' schema-difference orchestration:                    *)
(*   pyrseas/database.py            Database, flatten                      *)
(*   pyrseas/dbobject/operclass.py  OperatorClass, OperatorClassDict       *)
(*                                                                         *)
(* Python strings that the code parses (startswith, rfind, slices) are     *)
(* modelled as sequences of one-character strings, so that parsing and     *)
(* formatting are computed character by character.  Names that the code    *)
(* only compares for equality are plain TLA+ strings.                      *)
(***************************************************************************)
EXTENDS Integers, Sequences, FiniteSets, TLC

VARIABLES
    pc,         \* position of the modelled call: "ready" or "done"
    catalog,    \* what the system catalogs hold: registry name -> set of keys
    db,         \* Database.db: [populated, regs], regs: registry name -> keys
    ndb,        \* Database.ndb: [populated, regs], regs: registry name ->
                \*   top-level document keys delivered to its from_map
    input_map,  \* the document handed to diff_map: its keys in dict order
    opts,       \* the options handed to diff_map: [schemas]
    outcome,    \* how the call ended: [status, error, key]
    invoked,    \* the per-kind diff_map/_drop calls made, in order
    result,     \* the list diff_map returned
    kept,       \* the argument of the _trim_objects call: [called, schemas]
    opclasses,  \* an OperatorClassDict: key -> OperatorClass (its attributes)
    conn,       \* what was done on the registry's connection, in order
    call,       \* the arguments of the last OperatorClassDict.from_map call
    loaded,     \* how many document entries from_map was handed so far
    deps        \* what the last get_implied_deps call did: [of, status, ...]

dbvars == <<catalog, ndb, input_map, opts, invoked, result, kept>>
opcvars == <<opclasses, conn, call, loaded, deps>>
vars == <<pc, db, outcome, dbvars, opcvars>>

----------------------------------------------------------------------------
(* Python string operations on character sequences *)

Min(a, b) == IF a < b THEN a ELSE b

\* s.startswith(p)
StartsWith(s, p) == Len(s) >= Len(p) /\ SubSeq(s, 1, Len(p)) = p

\* the 0-based offsets at which sub occurs in s
Occurrences(s, sub) ==
    {i \in 0..(Len(s) - Len(sub)) : SubSeq(s, i + 1, i + Len(sub)) = sub}

\* sub in s
Contains(s, sub) == Occurrences(s, sub) # {}

\* s.rfind(sub): the highest offset, -1 when sub does not occur
RFind(s, sub) ==
    IF Occurrences(s, sub) = {} THEN -1
    ELSE CHOOSE i \in Occurrences(s, sub) :
             \A j \in Occurrences(s, sub) : j <= i

\* s[a:b] for 0 <= a, 0 <= b
Slice(s, a, b) == SubSeq(s, a + 1, Min(b, Len(s)))

\* s[a:] for 0 <= a
SliceFrom(s, a) == SubSeq(s, a + 1, Len(s))

----------------------------------------------------------------------------
(* String literals *)

\* 'schema '
S_schema_ ==
    <<"s","c","h","e","m","a"," ">>
\* 'extension '
S_extension_ ==
    <<"e","x","t","e","n","s","i","o","n"," ">>
\* 'language '
S_language_ ==
    <<"l","a","n","g","u","a","g","e"," ">>
\* 'cast '
S_cast_ ==
    <<"c","a","s","t"," ">>
\* 'foreign data wrapper '
S_fdw_ ==
    <<"f","o","r","e","i","g","n"," ","d","a","t","a"," ","w","r","a","p","p","e","r"," ">>
\* 'user mapping for '
S_um_ ==
    <<"u","s","e","r"," ","m","a","p","p","i","n","g"," ","f","o","r"," ">>
\* 'operator class '
S_operator_class_ ==
    <<"o","p","e","r","a","t","o","r"," ","c","l","a","s","s"," ">>
\* ' using '
S_using_ ==
    <<" ","u","s","i","n","g"," ">>
\* 'schema public'
K_schema_public ==
    <<"s","c","h","e","m","a"," ","p","u","b","l","i","c">>
\* 'schema s2'
K_schema_s2 ==
    <<"s","c","h","e","m","a"," ","s","2">>
\* 'extension e'
K_extension ==
    <<"e","x","t","e","n","s","i","o","n"," ","e">>
\* 'language l'
K_language ==
    <<"l","a","n","g","u","a","g","e"," ","l">>
\* 'cast c'
K_cast ==
    <<"c","a","s","t"," ","c">>
\* 'foreign data wrapper w'
K_fdw ==
    <<"f","o","r","e","i","g","n"," ","d","a","t","a"," ","w","r","a","p","p","e","r"," ","w">>
\* 'user mapping for u'
K_um ==
    <<"u","s","e","r"," ","m","a","p","p","i","n","g"," ","f","o","r"," ","u">>
\* 'table t'
K_table ==
    <<"t","a","b","l","e"," ","t">>
\* 'schemax'
K_schemax ==
    <<"s","c","h","e","m","a","x">>
\* 'operator class c using btree'
OK_c_btree ==
    <<"o","p","e","r","a","t","o","r"," ","c","l","a","s","s"," ","c"," ","u","s","i","n","g"," ","b","t","r","e","e">>
\* 'operator class d using gist'
OK_d_gist ==
    <<"o","p","e","r","a","t","o","r"," ","c","l","a","s","s"," ","d"," ","u","s","i","n","g"," ","g","i","s","t">>
\* 'operator class a using b using h'
OK_nested ==
    <<"o","p","e","r","a","t","o","r"," ","c","l","a","s","s"," ","a"," ","u","s","i","n","g"," ","b"," ","u","s","i","n","g"," ","h">>
\* 'operator class using btree'
OK_overlap ==
    <<"o","p","e","r","a","t","o","r"," ","c","l","a","s","s"," ","u","s","i","n","g"," ","b","t","r","e","e">>
\* 'operator class  using btree'
OK_empty_name ==
    <<"o","p","e","r","a","t","o","r"," ","c","l","a","s","s"," "," ","u","s","i","n","g"," ","b","t","r","e","e">>
\* 'operator c using btree'
OK_bad_prefix ==
    <<"o","p","e","r","a","t","o","r"," ","c"," ","u","s","i","n","g"," ","b","t","r","e","e">>
\* 'operator class c'
OK_no_using ==
    <<"o","p","e","r","a","t","o","r"," ","c","l","a","s","s"," ","c">>
\* 'public'
N_public ==
    <<"p","u","b","l","i","c">>
\* 's2'
N_s2 ==
    <<"s","2">>
\* 'c'
N_c ==
    <<"c">>
\* 'd'
N_d ==
    <<"d">>
\* 'btree'
N_btree ==
    <<"b","t","r","e","e">>
\* 'fam'
N_fam ==
    <<"f","a","m">>

----------------------------------------------------------------------------
(* Bounds of the model *)

\* deepest nesting of the lists a per-kind diff_map or _drop returns
MaxDepth == 1

\* most top-level keys in a document
MaxKeys == 2

\* most objects in the system catalogs
MaxObjs == 2

\* most document entries handed to OperatorClassDict.from_map in a run
MaxEntries == 2

----------------------------------------------------------------------------
(* Database.Dicts: the holder of one registry per object kind *)

RegistryNames ==
    {"schemas", "extensions", "languages", "casts", "types", "tables",
     "columns", "constraints", "indexes", "functions", "operators",
     "operclasses", "operfams", "rules", "triggers", "conversions",
     "tstempls", "tsdicts", "tsparsers", "tsconfigs", "fdwrappers",
     "servers", "usermaps", "ftables", "collations"}

EmptyRegs == [r \in RegistryNames |-> {}]

\* self.db = None / self.ndb not yet assigned
NoDicts == [populated |-> FALSE, regs |-> EmptyRegs]

Dicts(regs) == [populated |-> TRUE, regs |-> regs]

----------------------------------------------------------------------------
(* flatten *)

NoStmt == [reg |-> "", op |-> "", n |-> 0]

\* an element of a Python list: a statement, or a list of elements
Leaf(s) == [isList |-> FALSE, items |-> <<>>, stmt |-> s]
List(items) == [isList |-> TRUE, items |-> items, stmt |-> NoStmt]

RECURSIVE flattenReversed(_)
flattenReversed(lst) ==
    IF lst = <<>> THEN <<>>
    ELSE LET elem == Head(lst)
         IN  flattenReversed(Tail(lst))
               \o (IF elem.isList THEN flattenReversed(elem.items)
                   ELSE <<elem.stmt>>)

RECURSIVE flatten(_)
flatten(lst) ==
    IF lst = <<>> THEN <<>>
    ELSE LET elem == Head(lst)
         IN  (IF elem.isList THEN flatten(elem.items) ELSE <<elem.stmt>>)
               \o flatten(Tail(lst))

----------------------------------------------------------------------------
(* Database._trim_objects *)

\* the registries _trim_objects filters by obj[0]
TrimmedTypes ==
    {"types", "tables", "constraints", "indexes", "functions", "operators",
     "operclasses", "operfams", "rules", "triggers", "conversions",
     "tstempls", "tsdicts", "tsparsers", "tsconfigs", "extensions",
     "collations"}

TrimmedTypesAndColumns == TrimmedTypes \cup {"columns", "ftables"}

\* Keys are tuples; a schema's key <<sch>> stands for the string sch.
trim_objects(regs, schemas) ==
    [r \in RegistryNames |->
        IF r \in TrimmedTypes
          THEN {obj \in regs[r] : obj[1] \in schemas}
        ELSE IF r = "schemas"
          THEN {sch \in regs[r] : sch[1] \in schemas}
        ELSE IF r \in {"languages", "casts"}
          THEN {}
        ELSE regs[r]]

----------------------------------------------------------------------------
(* Database.from_map *)

NoInputs ==
    [schemas |-> {}, extens |-> {}, langs |-> {}, casts |-> {},
     fdws |-> {}, ums |-> {}, raised |-> FALSE, key |-> <<>>]

\* the loop over input_map.keys(): sorts every key into its sub-map and
\* raises KeyError at the first key with no recognized prefix
RECURSIVE SortKeys(_, _)
SortKeys(keys, acc) ==
    IF keys = <<>> THEN acc
    ELSE LET key == Head(keys)
             rest == Tail(keys)
         IN  IF StartsWith(key, S_schema_)
               THEN SortKeys(rest, [acc EXCEPT !.schemas = @ \cup {key}])
             ELSE IF StartsWith(key, S_extension_)
               THEN SortKeys(rest, [acc EXCEPT !.extens = @ \cup {key}])
             ELSE IF StartsWith(key, S_language_)
               THEN SortKeys(rest, [acc EXCEPT !.langs = @ \cup {key}])
             ELSE IF StartsWith(key, S_cast_)
               THEN SortKeys(rest, [acc EXCEPT !.casts = @ \cup {key}])
             ELSE IF StartsWith(key, S_fdw_)
               THEN SortKeys(rest, [acc EXCEPT !.fdws = @ \cup {key}])
             ELSE IF StartsWith(key, S_um_)
               THEN SortKeys(rest, [acc EXCEPT !.ums = @ \cup {key}])
             ELSE [acc EXCEPT !.raised = TRUE, !.key = key]

\* the registries whose from_map is called, with what each receives
Delivered(inputs) ==
    [r \in RegistryNames |->
        IF r = "extensions" THEN inputs.extens
        ELSE IF r = "languages" THEN inputs.langs
        ELSE IF r = "schemas" THEN inputs.schemas
        ELSE IF r = "casts" THEN inputs.casts
        ELSE IF r = "fdwrappers" THEN inputs.fdws
        ELSE {}]

\* [raised, key, ndb]: self.ndb is a fresh holder as soon as from_map starts
Database_from_map(keys) ==
    LET inputs == SortKeys(keys, NoInputs)
    IN  IF inputs.raised
          THEN [raised |-> TRUE, key |-> inputs.key, ndb |-> Dicts(EmptyRegs)]
          ELSE [raised |-> FALSE, key |-> <<>>,
                ndb |-> Dicts(Delivered(inputs))]

----------------------------------------------------------------------------
(* Database.diff_map *)

Call(reg, op) == [reg |-> reg, op |-> op]

\* the same calls with types._drop() made before the foreign-table diff
CallsDropEarly ==
    << Call("extensions", "diff_map"), Call("languages", "diff_map"),
       Call("schemas", "diff_map"), Call("types", "diff_map"),
       Call("functions", "diff_map"), Call("operators", "diff_map"),
       Call("operfams", "diff_map"), Call("operclasses", "diff_map"),
       Call("tables", "diff_map"), Call("constraints", "diff_map"),
       Call("indexes", "diff_map"), Call("columns", "diff_map"),
       Call("triggers", "diff_map"), Call("rules", "diff_map"),
       Call("conversions", "diff_map"), Call("tsdicts", "diff_map"),
       Call("tstempls", "diff_map"), Call("tsparsers", "diff_map"),
       Call("tsconfigs", "diff_map"), Call("casts", "diff_map"),
       Call("collations", "diff_map"), Call("fdwrappers", "diff_map"),
       Call("servers", "diff_map"), Call("usermaps", "diff_map"),
       Call("types", "_drop"), Call("ftables", "diff_map"),
       Call("operators", "_drop"), Call("operclasses", "_drop"),
       Call("operfams", "_drop"), Call("functions", "_drop"),
       Call("extensions", "_drop"),
       Call("schemas", "_drop"), Call("servers", "_drop"),
       Call("fdwrappers", "_drop"), Call("languages", "_drop") >>

\* the per-kind calls of diff_map, in the order the code makes them
Calls ==
    << Call("extensions", "diff_map"), Call("languages", "diff_map"),
       Call("schemas", "diff_map"), Call("types", "diff_map"),
       Call("functions", "diff_map"), Call("operators", "diff_map"),
       Call("operfams", "diff_map"), Call("operclasses", "diff_map"),
       Call("tables", "diff_map"), Call("constraints", "diff_map"),
       Call("indexes", "diff_map"), Call("columns", "diff_map"),
       Call("triggers", "diff_map"), Call("rules", "diff_map"),
       Call("conversions", "diff_map"), Call("tsdicts", "diff_map"),
       Call("tstempls", "diff_map"), Call("tsparsers", "diff_map"),
       Call("tsconfigs", "diff_map"), Call("casts", "diff_map"),
       Call("collations", "diff_map"), Call("fdwrappers", "diff_map"),
       Call("servers", "diff_map"), Call("usermaps", "diff_map"),
       Call("ftables", "diff_map"),
       Call("operators", "_drop"), Call("operclasses", "_drop"),
       Call("operfams", "_drop"), Call("functions", "_drop"),
       Call("types", "_drop"), Call("extensions", "_drop"),
       Call("schemas", "_drop"), Call("servers", "_drop"),
       Call("fdwrappers", "_drop"), Call("languages", "_drop") >>

\* the n-th statement a call returns
Stmt(c, n) == [reg |-> c.reg, op |-> c.op, n |-> n]

RECURSIVE Nest(_, _)
Nest(d, items) == IF d = 0 THEN items ELSE <<List(Nest(d - 1, items))>>

\* The lists a per-kind diff_map or _drop may return: empty, one statement
\* or two, nested up to MaxDepth lists deep.
Returns(c) ==
    {<<>>, <<List(<<>>)>>}
      \cup {Nest(d, <<Leaf(Stmt(c, 1))>>) : d \in 0..MaxDepth}
      \cup {<<Leaf(Stmt(c, 1))>> \o Nest(d, <<Leaf(Stmt(c, 2))>>) :
               d \in 1..MaxDepth}

\* stmts = <first call>; stmts.append(<each later call>), the i-th call
\* returning rets[i]
RECURSIVE AppendAll(_, _, _)
AppendAll(stmts, i, rets) ==
    IF i > Len(Calls) THEN stmts
    ELSE AppendAll(Append(stmts, List(rets[i])), i + 1, rets)

\* flatten(stmts)
Statements(rets) == flatten(AppendAll(rets[1], 2, rets))

NoOutcome == [status |-> "none", error |-> "", key |-> <<>>]
Raised(error, key) == [status |-> "raised", error |-> error, key |-> key]
Returned == [status |-> "returned", error |-> "", key |-> <<>>]

\* self.from_catalog(): every registry is filled from the catalogs
from_catalog ==
    /\ pc = "ready"
    /\ ~db.populated
    /\ db' = Dicts(catalog)
    /\ UNCHANGED <<pc, outcome, dbvars, opcvars>>

\* self._trim_objects(schemas), called on a populated holder
Database_trim_objects(schemas) ==
    /\ pc = "ready"
    /\ db.populated
    /\ db' = Dicts(trim_objects(db.regs, schemas))
    /\ kept' = [called |-> TRUE, schemas |-> schemas]
    /\ pc' = "done"
    /\ UNCHANGED <<catalog, ndb, input_map, opts, outcome, invoked, result,
                   opcvars>>

\* self.diff_map(input_map, opts); rets[i] is what the i-th per-kind call
\* returns
diff_map(rets) ==
    /\ pc = "ready"
    /\ pc' = "done"
    /\ db' = IF db.populated THEN db ELSE Dicts(catalog)
    /\ IF opts.schemas # {}
         \* the name "schemas" is not bound in diff_map
         THEN /\ outcome' = Raised("NameError", <<>>)
              /\ UNCHANGED <<ndb, invoked, result>>
         ELSE LET fm == Database_from_map(input_map)
              IN  /\ ndb' = fm.ndb
                  /\ IF fm.raised
                       THEN /\ outcome' = Raised("KeyError", fm.key)
                            /\ UNCHANGED <<invoked, result>>
                       ELSE /\ outcome' = Returned
                            /\ invoked' = Calls
                            /\ result' = Statements(rets)
    /\ UNCHANGED <<catalog, input_map, opts, kept, opcvars>>

----------------------------------------------------------------------------
(* Objects with attributes, and registries of them *)

\* An object is the function from the names of the attributes it has to
\* their values; a registry is the function from its keys to its objects.
HasAttr(obj, a) == a \in DOMAIN obj

\* setattr(obj, a, body[a]) for every a in body
SetAttrs(obj, body) ==
    [a \in DOMAIN obj \cup DOMAIN body |->
        IF a \in DOMAIN body THEN body[a] ELSE obj[a]]

\* del obj.a
DelAttr(obj, a) == [b \in DOMAIN obj \ {a} |-> obj[b]]

\* self[key] = obj
Put(reg, key, obj) ==
    [k \in DOMAIN reg \cup {key} |-> IF k = key THEN obj ELSE reg[k]]

\* dict.values()
Values(map) == {map[k] : k \in DOMAIN map}

\* dict.update({k: v})
Update(map, k, v) ==
    [j \in DOMAIN map \cup {k} |-> IF j = k THEN v ELSE map[j]]

----------------------------------------------------------------------------
(* OperatorClassDict.from_map *)

\* len('operator class ')
PrefixLen == 15

\* len(' using ')
UsingLen == 7

\* OperatorClass(schema=..., name=..., index_method=...)
OperatorClass(schema, name, index_method) ==
    [schema |-> schema, name |-> name, index_method |-> index_method]

\* not inopcl: the value is None or an empty mapping
IsEmpty(inopcl) == inopcl.none \/ DOMAIN inopcl.attrs = {}

\* the loop over the entries of inopcls, in dict order
RECURSIVE from_map_loop(_, _, _)
from_map_loop(inopcls, schema, reg) ==
    IF inopcls = <<>> THEN [opclasses |-> reg, error |-> "", key |-> <<>>]
    ELSE
      LET key == Head(inopcls).key
      IN  IF ~StartsWith(key, S_operator_class_) \/ ~Contains(key, S_using_)
            THEN [opclasses |-> reg, error |-> "KeyError", key |-> key]
          ELSE
            LET pos == RFind(key, S_using_)
                opc == Slice(key, PrefixLen, pos)
                idx == SliceFrom(key, pos + UsingLen)
                inopcl == Head(inopcls).body
                opclass == OperatorClass(schema, opc, idx)
                stored == Put(reg, <<schema, opc, idx>>, opclass)
            IN  IF IsEmpty(inopcl)
                  THEN [opclasses |-> stored, error |-> "ValueError",
                        key |-> opc]
                  ELSE from_map_loop(
                           Tail(inopcls), schema,
                           Put(reg, <<schema, opc, idx>>,
                               SetAttrs(opclass, inopcl.attrs)))

\* self.from_map(schema, inopcls); schema stands for schema.name
OperatorClassDict_from_map(schema, inopcls) ==
    /\ pc = "ready"
    /\ conn = <<>>
    /\ loaded + Len(inopcls) <= MaxEntries
    /\ LET r == from_map_loop(inopcls, schema, opclasses)
       IN  /\ opclasses' = r.opclasses
           /\ outcome' = IF r.error = "" THEN Returned
                         ELSE Raised(r.error, r.key)
           /\ pc' = IF r.error = "" THEN "ready" ELSE "done"
    /\ call' = [called |-> TRUE, schema |-> schema, inopcls |-> inopcls]
    /\ loaded' = loaded + Len(inopcls)
    /\ UNCHANGED <<db, dbvars, conn, deps>>

----------------------------------------------------------------------------
(* OperatorClassDict._from_catalog *)

Fetched(q) == [ev |-> "fetchall", q |-> q, ok |-> TRUE]
Failed(q) == [ev |-> "fetchall", q |-> q, ok |-> FALSE]
Rollback == [ev |-> "rollback", q |-> "", ok |-> TRUE]

\* for opclass in self.fetch(): ...
RECURSIVE StoreRows(_, _)
StoreRows(rows, reg) ==
    IF rows = <<>> THEN reg
    ELSE LET opclass == Head(rows)
             obj == IF opclass.storage = "-" THEN DelAttr(opclass, "storage")
                    ELSE opclass
         IN  StoreRows(Tail(rows),
                       Put(reg, <<opclass.schema, opclass.name,
                                  opclass.index_method>>, obj))

\* for (sch, opc, idx, strat, oper) in opers: ...   (attr = "operators")
\* for (sch, opc, idx, supp, func) in funcs: ...    (attr = "functions")
RECURSIVE MergeRows(_, _, _)
MergeRows(rows, attr, reg) ==
    IF rows = <<>> THEN reg
    ELSE LET row == Head(rows)
             k == <<row[1], row[2], row[3]>>
             opcls == reg[k]
             had == IF HasAttr(opcls, attr) THEN opcls[attr] ELSE <<>>
             now == SetAttrs(opcls,
                             [a \in {attr} |-> Update(had, row[4], row[5])])
         IN  MergeRows(Tail(rows), attr, Put(reg, k, now))

\* self._from_catalog(): rows, opers and funcs are what the three queries
\* return; opFails and prFails say whether an auxiliary fetchall raises.
\* Nothing catches what fetchall raises.
OperatorClassDict_from_catalog(rows, opers, funcs, opFails, prFails) ==
    /\ pc = "ready"
    /\ ~call.called
    /\ conn = <<>>
    /\ LET reg1 == StoreRows(rows, opclasses)
           log1 == Append(conn, Fetched("query"))
           reg2 == MergeRows(opers, "operators", reg1)
           log2 == log1 \o <<Fetched("opquery"), Rollback>>
           reg3 == MergeRows(funcs, "functions", reg2)
           log3 == log2 \o <<Fetched("prquery"), Rollback>>
       IN  IF opFails
             THEN /\ opclasses' = reg1
                  /\ conn' = Append(log1, Failed("opquery"))
                  /\ outcome' = Raised("DatabaseError", <<>>)
                  /\ pc' = "done"
           ELSE IF prFails
             THEN /\ opclasses' = reg2
                  /\ conn' = Append(log2, Failed("prquery"))
                  /\ outcome' = Raised("DatabaseError", <<>>)
                  /\ pc' = "done"
           ELSE /\ opclasses' = reg3
                /\ conn' = log3
                /\ outcome' = Returned
                /\ pc' = "ready"
    /\ UNCHANGED <<db, dbvars, call, loaded, deps>>

----------------------------------------------------------------------------
(* OperatorClass.get_implied_deps *)

\* db.<reg>.find(...): the object found, none when it is not in the graph
Find(regs, reg, key) == IF key \in regs[reg] THEN {<<reg, key>>} ELSE {}

AttributeError(attr) ==
    [status |-> "raised", error |-> "AttributeError", attr |-> attr,
     deps |-> {}]

\* obj.get_implied_deps(db); base is what the superclass method returns
get_implied_deps(obj, regs, base) ==
    IF ~HasAttr(obj, "type") THEN AttributeError("type")
    ELSE
      LET type == Find(regs, "types", <<obj["type"]>>)
          storage == IF HasAttr(obj, "storage") /\ obj["storage"] # ""
                       THEN Find(regs, "types", <<obj["storage"]>>)
                       ELSE {}
      IN  IF ~HasAttr(obj, "functions") THEN AttributeError("functions")
          ELSE IF ~HasAttr(obj, "operators") THEN AttributeError("operators")
          ELSE
            LET funcs == UNION {Find(regs, "functions", <<f>>) :
                                   f \in Values(obj["functions"])}
                opers == UNION {Find(regs, "operators", <<f>>) :
                                   f \in Values(obj["operators"])}
                family == IF HasAttr(obj, "family") /\ obj["family"] # <<>>
                            THEN Find(regs, "operfams",
                                      <<obj["family"], obj["index_method"]>>)
                            ELSE {}
            IN  [status |-> "returned", error |-> "", attr |-> "",
                 deps |-> base \cup type \cup storage \cup funcs
                            \cup opers \cup family]

\* a call of get_implied_deps on the operator class stored under key k
OperatorClass_get_implied_deps(k, base) ==
    /\ pc = "ready"
    /\ k \in DOMAIN opclasses
    /\ LET r == get_implied_deps(opclasses[k], db.regs, base)
       IN  deps' = [called |-> TRUE, of |-> k, base |-> base,
                    status |-> r.status, error |-> r.error, attr |-> r.attr,
                    deps |-> r.deps]
    /\ pc' = "done"
    /\ UNCHANGED <<db, outcome, dbvars, opclasses, conn, call, loaded>>

----------------------------------------------------------------------------
(* Inputs *)

Range(s) == {s[i] : i \in 1..Len(s)}

\* the subsets of U with at most k members
RECURSIVE SubsetsUpTo(_, _)
SubsetsUpTo(U, k) ==
    IF k = 0 THEN {{}}
    ELSE LET smaller == SubsetsUpTo(U, k - 1)
         IN  smaller \cup {s \cup {x} : s \in smaller, x \in U}

\* the sequences of at most n distinct members of U
RECURSIVE SeqsUpTo(_, _)
SeqsUpTo(U, n) ==
    IF n = 0 THEN {<<>>}
    ELSE LET shorter == SeqsUpTo(U, n - 1)
         IN  shorter \cup
               UNION {{Append(s, x) : x \in U \ Range(s)} : s \in shorter}

SchemaNames == {N_public, N_s2}

TopLevelKeys ==
    {K_schema_public, K_schema_s2, K_extension, K_language, K_cast, K_fdw,
     K_um, K_table, K_schemax}

\* every object the catalogs may hold, as <<registry, key>>
CatalogObjects ==
    {<<r, <<sch, "x">>>> : r \in TrimmedTypesAndColumns, sch \in SchemaNames}
      \cup {<<"schemas", <<sch>>>> : sch \in SchemaNames}
      \cup {<<"languages", <<"l">>>>, <<"casts", <<"int", "text">>>>,
            <<"fdwrappers", <<"w">>>>, <<"servers", <<"w", "srv">>>>,
            <<"usermaps", <<"w", "srv", "u">>>>}

RegsOf(objs) ==
    [r \in RegistryNames |-> {o[2] : o \in {x \in objs : x[1] = r}}]

Catalog0 ==
    RegsOf({<<"schemas", <<N_public>>>>, <<"schemas", <<N_s2>>>>,
            <<"types", <<N_public, "x">>>>, <<"columns", <<N_s2, "x">>>>,
            <<"languages", <<"l">>>>})

NoKept == [called |-> FALSE, schemas |-> {}]

NoCall == [called |-> FALSE, schema |-> <<>>, inopcls |-> <<>>]
NoDeps ==
    [called |-> FALSE, of |-> <<>>, base |-> {}, status |-> "none",
     error |-> "", attr |-> "", deps |-> {}]

\* the operator-class registry is left alone
OpcUnused ==
    /\ opclasses = <<>>
    /\ conn = <<>>
    /\ call = NoCall
    /\ loaded = 0
    /\ deps = NoDeps

\* what each call returns, by its place in Calls: all calls return [],
\* but the i-th and the j-th, which return ri and rj
PairRets(i, ri, j, rj) ==
    [c \in 1..Len(Calls) |->
        IF c = i THEN ri ELSE IF c = j THEN rj ELSE <<>>]

\* every call returns one statement, or every call returns []
UniformRets(some) ==
    [c \in 1..Len(Calls) |->
        IF some THEN <<Leaf(Stmt(Calls[c], 1))>> ELSE <<>>]

----------------------------------------------------------------------------
(* Spec: diff_map of a well-formed document, without schema restriction,  *)
(* over every pair of per-kind results                                    *)

Init ==
    /\ pc = "ready"
    /\ catalog = Catalog0
    /\ db = NoDicts
    /\ ndb = NoDicts
    /\ input_map = <<K_extension, K_schema_public>>
    /\ opts = [schemas |-> {}]
    /\ outcome = NoOutcome
    /\ invoked = <<>>
    /\ result = <<>>
    /\ kept = NoKept
    /\ OpcUnused

DiffMapPair ==
    \E i \in 1..Len(Calls) : \E j \in i..Len(Calls) :
        \E ri \in Returns(Calls[i]) : \E rj \in Returns(Calls[j]) :
            \E rets \in {PairRets(i, ri, j, rj)} :
                diff_map(rets)

Next == from_catalog \/ DiffMapPair

Spec == Init /\ [][Next]_vars

(* SpecDoc: diff_map over every document of at most MaxKeys keys *)

InitDoc ==
    /\ pc = "ready"
    /\ catalog = Catalog0
    /\ db \in {NoDicts, Dicts(Catalog0)}
    /\ ndb = NoDicts
    /\ input_map \in SeqsUpTo(TopLevelKeys, MaxKeys)
    /\ opts \in [schemas : SUBSET SchemaNames]
    /\ outcome = NoOutcome
    /\ invoked = <<>>
    /\ result = <<>>
    /\ kept = NoKept
    /\ OpcUnused

DiffMapUniform ==
    \E some \in BOOLEAN : \E rets \in {UniformRets(some)} : diff_map(rets)

NextDoc == from_catalog \/ DiffMapUniform

SpecDoc == InitDoc /\ [][NextDoc]_vars

(* SpecTrim: _trim_objects over every catalog of at most MaxObjs objects *)

InitTrim ==
    /\ pc = "ready"
    /\ catalog \in {RegsOf(objs) : objs \in SubsetsUpTo(CatalogObjects, MaxObjs)}
    /\ db = NoDicts
    /\ ndb = NoDicts
    /\ input_map = <<>>
    /\ opts = [schemas |-> {}]
    /\ outcome = NoOutcome
    /\ invoked = <<>>
    /\ result = <<>>
    /\ kept = NoKept
    /\ OpcUnused

TrimObjects == \E schemas \in SUBSET SchemaNames : Database_trim_objects(schemas)

NextTrim == from_catalog \/ TrimObjects

SpecTrim == InitTrim /\ [][NextTrim]_vars

----------------------------------------------------------------------------
(* Claims about Database.diff_map *)

PosIn(seq, x) == CHOOSE i \in 1..Len(seq) : seq[i] = x

ReturnedList == pc = "done" /\ outcome.status = "returned"

\* the forward order of kinds the documentation gives
ForwardOrder ==
    <<"extensions", "languages", "schemas", "types", "functions",
      "operators", "operfams", "operclasses", "tables", "constraints",
      "indexes", "columns", "triggers", "rules", "conversions", "tsdicts",
      "tstempls", "tsparsers", "tsconfigs", "casts", "collations",
      "fdwrappers", "servers", "usermaps", "ftables">>

\* the cleanup order of kinds the documentation gives
CleanupOrder ==
    <<"operators", "operclasses", "operfams", "functions", "types",
      "extensions", "schemas", "servers", "fdwrappers", "languages">>

IsDiff(s) == s.op = "diff_map"
IsDrop(s) == s.op = "_drop"

\* C1: in the returned list every statement of a per-kind diff_map precedes
\* every statement of the diff_map of a kind later in the forward order,
\* whatever nesting the per-kind lists have.
C1_ForwardOrder ==
    ReturnedList =>
        \A p, q \in 1..Len(result) :
            (p < q /\ IsDiff(result[p]) /\ IsDiff(result[q])) =>
                PosIn(ForwardOrder, result[p].reg)
                  <= PosIn(ForwardOrder, result[q].reg)

\* a type's create precedes the second of two column alters (which the
\* column diff returns in a nested list)
C1_Witness ==
    /\ ReturnedList
    /\ \E p, q \in 1..Len(result) :
          /\ p < q
          /\ result[p] = [reg |-> "types", op |-> "diff_map", n |-> 1]
          /\ result[q] = [reg |-> "columns", op |-> "diff_map", n |-> 2]

\* C2: in the returned list every _drop statement follows every diff_map
\* statement, the _drop statements are in the cleanup order, and the ten
\* cleanup kinds are dropped once each after the 25 forward diffs.
C2_CleanupLast ==
    ReturnedList =>
        /\ \A p, q \in 1..Len(result) :
              (p < q /\ IsDrop(result[p])) =>
                  /\ IsDrop(result[q])
                  /\ PosIn(CleanupOrder, result[p].reg)
                       <= PosIn(CleanupOrder, result[q].reg)
        /\ [i \in 1..Len(SelectSeq(invoked, IsDrop)) |->
               SelectSeq(invoked, IsDrop)[i].reg] = CleanupOrder
        /\ [i \in 1..Len(SelectSeq(invoked, IsDiff)) |->
               SelectSeq(invoked, IsDiff)[i].reg] = ForwardOrder

\* a foreign-table statement is followed by a drop of a type
C2_Witness ==
    /\ ReturnedList
    /\ \E p, q \in 1..Len(result) :
          /\ p < q
          /\ result[p] = [reg |-> "ftables", op |-> "diff_map", n |-> 1]
          /\ result[q] = [reg |-> "types", op |-> "_drop", n |-> 1]

\* the registries in which an object of a registry looks up its implied
\* dependencies (OperatorClass.get_implied_deps)
ImpliedDepRegistries(reg) ==
    IF reg = "operclasses"
      THEN {"types", "functions", "operators", "operfams"}
      ELSE {}

\* C3: the cleanup pass is a reverse dependency order: the _drop statements
\* of a kind precede those of every kind its objects can depend on.
C3_ReverseDependencyOrder ==
    ReturnedList =>
        \A p, q \in 1..Len(result) :
            (/\ IsDrop(result[p]) /\ IsDrop(result[q])
             /\ result[q].reg \in ImpliedDepRegistries(result[p].reg))
                => p < q

\* C5: diff_map with a non-empty opts.schemas returns the statement list,
\* with the catalog graph trimmed to those schemas and the document graph
\* holding no other schema and no language or cast.
C5_SchemasOption ==
    (pc = "done" /\ opts.schemas # {}) =>
        /\ outcome.status = "returned"
        /\ \A r \in TrimmedTypesAndColumns :
              \A obj \in db.regs[r] : obj[1] \in opts.schemas
        /\ \A sch \in db.regs["schemas"] : sch[1] \in opts.schemas
        /\ db.regs["languages"] = {} /\ db.regs["casts"] = {}
        /\ \A key \in ndb.regs["schemas"] :
              \E sch \in opts.schemas : key = S_schema_ \o sch
        /\ ndb.regs["languages"] = {} /\ ndb.regs["casts"] = {}

\* the kind words of the documentation
KindWords ==
    {SubSeq(w, 1, Len(w) - 1) :
        w \in {S_schema_, S_extension_, S_language_, S_cast_, S_fdw_, S_um_}}

Unrecognized(key) == \A w \in KindWords : ~StartsWith(key, w)

\* C6: a document with an unrecognized top-level key makes diff_map fail
\* with an error naming such a key, before any per-kind call is made and
\* with no statement produced.
C6_BadKeyFails ==
    (pc = "done" /\ \E i \in 1..Len(input_map) : Unrecognized(input_map[i]))
        => /\ outcome.status = "raised"
           /\ outcome.key \in Range(input_map) /\ Unrecognized(outcome.key)
           /\ invoked = <<>>
           /\ result = <<>>

(* Claims about Database._trim_objects *)

\* C4: after _trim_objects(S) no member of a schema-scoped registry
\* (columns and foreign tables included) has a schema outside S, no schema
\* outside S remains, every member with a schema in S is kept, and the
\* languages and casts registries are empty.
C4_TrimScope ==
    kept.called =>
        /\ \A r \in TrimmedTypesAndColumns :
              /\ \A obj \in db.regs[r] : obj[1] \in kept.schemas
              /\ \A obj \in catalog[r] :
                    obj[1] \in kept.schemas => obj \in db.regs[r]
        /\ \A sch \in db.regs["schemas"] : sch[1] \in kept.schemas
        /\ \A sch \in catalog["schemas"] :
              sch[1] \in kept.schemas => sch \in db.regs["schemas"]
        /\ db.regs["languages"] = {} /\ db.regs["casts"] = {}

----------------------------------------------------------------------------
(* SpecOpc: an operator-class registry filled from the catalogs or from   *)
(* document fragments, and get_implied_deps on its members                *)

DocumentKeys ==
    {OK_c_btree, OK_d_gist, OK_nested, OK_overlap, OK_empty_name,
     OK_bad_prefix, OK_no_using}

Body(attrs) == [none |-> FALSE, attrs |-> attrs]

DocumentBodies ==
    {[none |-> TRUE, attrs |-> <<>>],
     Body(<<>>),
     Body([type |-> "geom"]),
     Body([type |-> "geom", name |-> N_d]),
     Body([type |-> "geom", storage |-> "int", family |-> N_fam,
           operators |-> <<"<(geom,geom)">>, functions |-> <<"f(geom)">>,
           oldname |-> N_d, description |-> "text"])}

DocumentEntries == [key : DocumentKeys, body : DocumentBodies]

\* the fragments of at most n entries, in dict order: no key twice
RECURSIVE Fragments(_)
Fragments(n) ==
    IF n = 0 THEN {<<>>}
    ELSE LET shorter == Fragments(n - 1)
         IN  shorter \cup
               UNION {{Append(s, e) :
                          e \in {x \in DocumentEntries :
                                    \A i \in 1..Len(s) : s[i].key # x.key}} :
                      s \in shorter}

CatalogNames == {N_c, N_d}

\* a row of the primary query
Row(name, storage) ==
    [schema |-> N_public, name |-> name, index_method |-> N_btree,
     family |-> N_fam, type |-> "geom", storage |-> storage]

RECURSIVE SeqOf(_)
SeqOf(S) ==
    IF S = {} THEN <<>>
    ELSE LET x == CHOOSE y \in S : TRUE IN <<x>> \o SeqOf(S \ {x})

\* every object the graph may hold besides the operator classes
GraphObjects ==
    {<<"types", <<"geom">>>>, <<"types", <<"int">>>>,
     <<"functions", <<"f(geom)">>>>, <<"operators", <<"<(geom,geom)">>>>,
     <<"operfams", <<N_fam, N_btree>>>>}

\* the graphs: nothing resolves, one object resolves, everything resolves
Graphs == {{}, GraphObjects} \cup {{o} : o \in GraphObjects}

BaseDeps == {{}, {<<"schemas", <<N_public>>>>}}

InitOpc ==
    /\ pc = "ready"
    /\ db \in {Dicts(RegsOf(objs)) : objs \in Graphs}
    /\ outcome = NoOutcome
    /\ catalog = EmptyRegs
    /\ ndb = NoDicts
    /\ input_map = <<>>
    /\ opts = [schemas |-> {}]
    /\ invoked = <<>>
    /\ result = <<>>
    /\ kept = NoKept
    /\ OpcUnused

FromCatalog ==
    \E names \in SUBSET CatalogNames :
      \E storage \in [names -> {"-", "int"}] :
        \E withOpers \in SUBSET names : \E withFuncs \in SUBSET names :
          \E opFails \in BOOLEAN : \E prFails \in BOOLEAN :
            OperatorClassDict_from_catalog(
                SeqOf({Row(n, storage[n]) : n \in names}),
                SeqOf({<<N_public, n, N_btree, 1, "<(geom,geom)">> :
                          n \in withOpers}),
                SeqOf({<<N_public, n, N_btree, 1, "f(geom)">> :
                          n \in withFuncs}),
                opFails, prFails)

FromMap ==
    \E inopcls \in Fragments(MaxEntries) \ {<<>>} :
        OperatorClassDict_from_map(N_public, inopcls)

GetImpliedDeps ==
    \E k \in DOMAIN opclasses : \E base \in BaseDeps :
        OperatorClass_get_implied_deps(k, base)

NextOpc == FromCatalog \/ FromMap \/ GetImpliedDeps

SpecOpc == InitOpc /\ [][NextOpc]_vars

----------------------------------------------------------------------------
(* Claims about OperatorClassDict and OperatorClass *)

\* the key is 'operator class <name> using <method>' for some name and
\* method
MatchesPattern(key) ==
    /\ StartsWith(key, S_operator_class_)
    /\ \E p \in Occurrences(key, S_using_) : p >= Len(S_operator_class_)

\* C7: registry entries that parse to the same composite key raise a
\* duplicate-key error instead of overwriting the stored object; so as long
\* as every from_map call returned, each entry handed over has an object
\* of its own.
C7_DuplicateKeyRejected ==
    (call.called /\ outcome.status = "returned") =>
        Cardinality(DOMAIN opclasses) = loaded

\* C8: from_map fails for a key that does not match the pattern and for an
\* empty value; when it returns, every entry has its object under
\* (schema, name, method), carrying every field of the entry's body.
C8_FromMapFormat ==
    call.called =>
        /\ (\E i \in 1..Len(call.inopcls) :
               \/ ~MatchesPattern(call.inopcls[i].key)
               \/ IsEmpty(call.inopcls[i].body))
              => outcome.status = "raised"
        /\ outcome.status = "returned" =>
              \A i \in 1..Len(call.inopcls) :
                  \E k \in DOMAIN opclasses :
                      /\ k[1] = call.schema
                      /\ call.inopcls[i].key =
                           S_operator_class_ \o k[2] \o S_using_ \o k[3]
                      /\ \A a \in DOMAIN call.inopcls[i].body.attrs :
                            /\ HasAttr(opclasses[k], a)
                            /\ opclasses[k][a] = call.inopcls[i].body.attrs[a]

IsAuxFetch(e) == e.ev = "fetchall" /\ e.q \in {"opquery", "prquery"}

\* C9: a failing auxiliary fetch does not abort _from_catalog; both
\* auxiliary fetches are issued and each, failed or not, is followed by a
\* rollback before anything else is done on the connection.
C9_FetchFailureAbsorbed ==
    conn # <<>> =>
        /\ outcome.status = "returned"
        /\ \E i \in 1..Len(conn) : conn[i].q = "opquery"
        /\ \E i \in 1..Len(conn) : conn[i].q = "prquery"
        /\ \A i \in 1..Len(conn) :
              IsAuxFetch(conn[i]) =>
                  i < Len(conn) /\ conn[i + 1].ev = "rollback"

\* what the documentation says get_implied_deps returns besides the base
\* dependencies: what resolves of the type, the storage type, the support
\* functions, the strategy operators and the family
ResolvedDeps(obj, regs) ==
    (IF HasAttr(obj, "type") THEN Find(regs, "types", <<obj["type"]>>)
     ELSE {})
      \cup (IF HasAttr(obj, "storage")
              THEN Find(regs, "types", <<obj["storage"]>>) ELSE {})
      \cup (IF HasAttr(obj, "functions")
              THEN UNION {Find(regs, "functions", <<f>>) :
                             f \in Values(obj["functions"])}
              ELSE {})
      \cup (IF HasAttr(obj, "operators")
              THEN UNION {Find(regs, "operators", <<f>>) :
                             f \in Values(obj["operators"])}
              ELSE {})
      \cup (IF HasAttr(obj, "family")
              THEN Find(regs, "operfams",
                        <<obj["family"], obj["index_method"]>>)
              ELSE {})

\* C10: get_implied_deps on any operator class of a populated registry
\* returns, without error, the base dependencies plus the references that
\* resolve in the graph.
C10_ImpliedDepsTotal ==
    deps.called =>
        /\ deps.status = "returned"
        /\ deps.deps = deps.base \cup ResolvedDeps(opclasses[deps.of], db.regs)

-----------------------------------------------------------------------------
(* Claims about the delivery of top-level entries by Database.from_map *)

\* the registries whose from_map received the top-level key
DeliveredTo(key) == {r \in RegistryNames : key \in ndb.regs[r]}

\* C11: every top-level entry from_map accepts is passed to exactly one
\* registry's from_map, so none is dropped from the document-derived graph.
C11_EveryEntryDelivered ==
    ReturnedList =>
        \A i \in 1..Len(input_map) : Cardinality(DeliveredTo(input_map[i])) = 1

-----------------------------------------------------------------------------
(* OperatorClass.extern_key and the round trip of document keys *)

UpperCase ==
    <<"A","B","C","D","E","F","G","H","I","J","K","L","M",
      "N","O","P","Q","R","S","T","U","V","W","X","Y","Z">>

LowerCase ==
    <<"a","b","c","d","e","f","g","h","i","j","k","l","m",
      "n","o","p","q","r","s","t","u","v","w","x","y","z">>

\* str.lower()
lower(s) ==
    [i \in 1..Len(s) |->
        IF \E n \in 1..Len(UpperCase) : UpperCase[n] = s[i]
          THEN LowerCase[CHOOSE n \in 1..Len(UpperCase) : UpperCase[n] = s[i]]
          ELSE s[i]]

\* "OPERATOR CLASS"
objtype ==
    <<"O","P","E","R","A","T","O","R"," ","C","L","A","S","S">>

\* '%s %s using %s' % (self.objtype.lower(), self.name, self.index_method)
extern_key(obj) ==
    lower(objtype) \o <<" ">> \o obj["name"] \o S_using_ \o obj["index_method"]

\* the body sets neither name nor index_method
KeepsIdentity(body) ==
    ~body.none /\ ~HasAttr(body.attrs, "name")
               /\ ~HasAttr(body.attrs, "index_method")

\* the objects of the call's schema whose extern_key() is the given key
ObjectsKeyed(key) ==
    {k \in DOMAIN opclasses :
        k[1] = call.schema /\ extern_key(opclasses[k]) = key}

\* pos = key.rfind(' using '); (key[15:pos], key[pos + 7:])
ParseKey(key) ==
    LET pos == RFind(key, S_using_)
    IN  <<Slice(key, PrefixLen, pos), SliceFrom(key, pos + UsingLen)>>

\* C12: after from_map returned, every accepted key whose body sets no name
\* or index_method is the extern_key() of an object of the registry, and two
\* distinct accepted keys never parse to the same (name, index_method).
C12_ExternKeyRoundTrip ==
    (call.called /\ outcome.status = "returned") =>
        /\ \A i \in 1..Len(call.inopcls) :
              KeepsIdentity(call.inopcls[i].body)
                 => ObjectsKeyed(call.inopcls[i].key) # {}
        /\ \A i, j \in 1..Len(call.inopcls) :
              i # j => ParseKey(call.inopcls[i].key)
                          # ParseKey(call.inopcls[j].key)
====
